---- MODULE Spec2Model ----
(***************************************************************************)
(* DXF Chat Editor (src/app/main.py): one global document handle, the      *)
(* request handlers of the FastAPI app, the parsing of the model's reply   *)
(* and the execution of the generated code.                                *)
(*                                                                         *)
(* Texts (model replies, generated code, file names, messages) are         *)
(* sequences of tokens; a token is a string that the code's string         *)
(* operations never cut in two.  The code fence of three backticks is      *)
(* written FENCE, and the text "```python" is the two tokens FENCE, PY.    *)
(***************************************************************************)
EXTENDS Integers, Sequences, FiniteSets, TLC

VARIABLES
    current_doc,       \* main.py:34  None, or the identity of the loaded Drawing
    current_filename,  \* main.py:35  <<>> (the empty string) or a file name
    docs,              \* the Drawing objects that are alive: identity -> contents
    uploads,           \* each upload request: where it stands and its file name
    last,              \* the handler step that ran last, with the response it sent
    met,               \* what the libraries and the hosted model returned in that step
    effects,           \* what that step did besides: "model" (the hosted model was
                       \* called), "exec" (code was executed), "raised" (that code
                       \* raised), "write" (a file was written under temp_dir)
    gen_in,            \* generate_ezdxf_code alone: the model's reply and its make-up
    gen_out,           \* what generate_ezdxf_code returned for it
    exe_in,            \* execute_ezdxf_code alone: the code and the document
    exe_out            \* what execute_ezdxf_code did with them

server == <<current_doc, current_filename, docs, uploads, last, met, effects>>

units == <<gen_in, gen_out, exe_in, exe_out>>

vars == <<server, units>>

-----------------------------------------------------------------------------
(* Bounds *)

MaxUploads == 2
MaxEntities == 3
FileEntities == 1
MaxStmts == 3
MaxExplLen == 2
MaxCodeLen == 2
MaxFreeLen == 4

-----------------------------------------------------------------------------
(* Tokens *)

\* main.py:34, the handle before any upload; request identities start at 1
None == 0
EXPLANATION == "EXPLANATION:"
CODE == "CODE:"
FENCE == "'''"
PY == "python"
SP == " "
NL == "\n"

Whitespace == {SP, NL}

\* The statements generated code is made of here:
\*   add    msp.add_line(...)              one more modelspace entity
\*   del    msp.delete_entity(msp[0])      one entity less; IndexError when empty
\*   set    entity.dxf.layer = ...         an attribute changes, the count does not
\*   raise  raise Exception(...)
Stmts == {"add", "del", "set", "raise"}

-----------------------------------------------------------------------------
(* Python's str operations, on token sequences *)

Abs(n) == IF n < 0 THEN -n ELSE n

Str(n) == <<"0", "1", "2", "3", "4", "5", "6", "7", "8", "9">>[n + 1]

MatchAt(t, i, pat) ==
    /\ i + Len(pat) - 1 <= Len(t)
    /\ \A k \in 1..Len(pat) : t[i + k - 1] = pat[k]

\* `pat in t`
Contains(t, pat) == \E i \in 1..Len(t) : MatchAt(t, i, pat)

\* t.find(pat), 1-based; 0 when there is none
Find(t, pat) ==
    IF Contains(t, pat)
    THEN CHOOSE i \in 1..Len(t) :
            MatchAt(t, i, pat) /\ \A j \in 1..(i - 1) : ~MatchAt(t, j, pat)
    ELSE 0

RECURSIVE Split(_, _)
\* t.split(sep): the pieces between the occurrences of sep, left to right
Split(t, sep) ==
    LET i == Find(t, sep) IN
    IF i = 0 THEN <<t>>
    ELSE <<SubSeq(t, 1, i - 1)>> \o Split(SubSeq(t, i + Len(sep), Len(t)), sep)

RECURSIVE JoinWith(_, _)
JoinWith(parts, sep) ==
    IF Len(parts) = 0 THEN <<>>
    ELSE IF Len(parts) = 1 THEN parts[1]
    ELSE parts[1] \o sep \o JoinWith(Tail(parts), sep)

\* t.replace(pat, rep)
Replace(t, pat, rep) == JoinWith(Split(t, pat), rep)

RECURSIVE LStrip(_)
LStrip(t) == IF t # <<>> /\ Head(t) \in Whitespace THEN LStrip(Tail(t)) ELSE t

RECURSIVE RStrip(_)
RStrip(t) ==
    IF t # <<>> /\ t[Len(t)] \in Whitespace THEN RStrip(SubSeq(t, 1, Len(t) - 1)) ELSE t

\* t.strip()
Strip(t) == RStrip(LStrip(t))

LowerTok(tok) == IF tok = ".DXF" THEN ".dxf" ELSE tok

\* t.lower()
Lower(t) == [i \in 1..Len(t) |-> LowerTok(t[i])]

\* t.endswith(suffix)
EndsWith(t, suffix) ==
    /\ Len(suffix) <= Len(t)
    /\ SubSeq(t, Len(t) - Len(suffix) + 1, Len(t)) = suffix

\* All sequences over S of length at most n
SeqsUpTo(S, n) == UNION {[1..k -> S] : k \in 0..n}

-----------------------------------------------------------------------------
(* generate_ezdxf_code, main.py:132-157: the reply split into explanation and code *)

DefaultExplanation == <<"Executing requested changes.">>

\* main.py:144-149, the code taken out of the part after "CODE:"
CodeOfPart(code_part) ==
    IF Contains(code_part, <<FENCE, PY>>)
    THEN Strip(Split(Split(code_part, <<FENCE, PY>>)[2], <<FENCE>>)[1])
    ELSE IF Contains(code_part, <<FENCE>>)
    THEN Strip(Split(Split(code_part, <<FENCE>>)[2], <<FENCE>>)[1])
    ELSE Strip(code_part)

\* main.py:152-155, the code taken out of a reply without "EXPLANATION:"
CodeOfText(text) ==
    IF Contains(text, <<FENCE, PY>>)
    THEN Strip(Split(Split(text, <<FENCE, PY>>)[2], <<FENCE>>)[1])
    ELSE IF Contains(text, <<FENCE>>)
    THEN Strip(Split(Split(text, <<FENCE>>)[2], <<FENCE>>)[1])
    ELSE <<>>

ParseResponse(text) ==
    IF Contains(text, <<EXPLANATION>>)
    THEN LET parts == Split(text, <<CODE>>) IN
         [explanation |-> Strip(Replace(parts[1], <<EXPLANATION>>, <<>>)),
          code |-> IF Len(parts) > 1 THEN CodeOfPart(parts[2]) ELSE <<>>]
    ELSE [explanation |-> DefaultExplanation, code |-> CodeOfText(text)]

\* The reply in the format the prompt asks for, main.py:118-123
Formatted(e, c) ==
    <<EXPLANATION, SP>> \o e \o <<NL, CODE, NL, FENCE, PY, NL>> \o c \o <<NL, FENCE>>

-----------------------------------------------------------------------------
(* The document: what the handlers can tell about a Drawing *)

\* n: len(list(doc.modelspace())); layer: the layer attribute the entities carry;
\* name: the file the Drawing was read from
NewDoc(n, name) == [n |-> n, layer |-> 0, name |-> name]

NoDocs == [r \in {} |-> NewDoc(0, <<>>)]

-----------------------------------------------------------------------------
(* execute_ezdxf_code, main.py:160-188 *)

IsPython(code) == \A i \in 1..Len(code) : code[i] \in Stmts \cup Whitespace

RECURSIVE RunStmts(_, _)
\* exec(code, ...) once the code compiled: the statements in order, on the
\* document itself, up to the first one that raises
RunStmts(code, d) ==
    IF code = <<>> THEN [doc |-> d, exc |-> ""]
    ELSE LET s == Head(code) IN
         CASE s = "add" -> RunStmts(Tail(code), [d EXCEPT !.n = d.n + 1])
           [] s = "del" -> IF d.n = 0 THEN [doc |-> d, exc |-> "IndexError"]
                           ELSE RunStmts(Tail(code), [d EXCEPT !.n = d.n - 1])
           [] s = "set" -> RunStmts(Tail(code),
                                    IF d.n = 0 THEN d ELSE [d EXCEPT !.layer = 1 - d.layer])
           [] s = "raise" -> [doc |-> d, exc |-> "Exception"]
           [] OTHER -> RunStmts(Tail(code), d)

\* A mutation: the document is put back when the code raises
ExecRollback(code, d) ==
    IF ~IsPython(code) THEN [doc |-> d, exc |-> "SyntaxError"]
    ELSE LET r == RunStmts(code, d) IN
         IF r.exc # "" THEN [doc |-> d, exc |-> r.exc] ELSE r

\* main.py:174, exec(code, exec_globals, exec_locals)
Exec(code, d) ==
    IF ~IsPython(code) THEN [doc |-> d, exc |-> "SyntaxError"]
    ELSE RunStmts(code, d)

\* A mutation: no net change reads as a removal of 0 elements
ResultMessageLe(diff) ==
    IF diff <= 0 THEN <<Str(Abs(diff)), " element(s) removed">>
    ELSE <<Str(diff), " element(s) added">>

\* main.py:180-185
ResultMessage(diff) ==
    IF diff < 0 THEN <<Str(Abs(diff)), " element(s) removed">>
    ELSE IF diff > 0 THEN <<Str(diff), " element(s) added">>
    ELSE <<"Changes applied successfully">>

\* main.py:188, the text of the RuntimeError
FailureMessage(exc) == <<"Code execution failed:", SP, exc, NL, "Traceback">>

\* [doc: the document afterwards, raised: a RuntimeError was raised, msg: the
\* returned message or the error's text]
execute_ezdxf_code(code, d) ==
    LET count_before == d.n
        r == Exec(code, d)
    IN  IF r.exc # ""
        THEN [doc |-> r.doc, raised |-> TRUE, msg |-> FailureMessage(r.exc)]
        ELSE [doc |-> r.doc, raised |-> FALSE,
              msg |-> ResultMessage(r.doc.n - count_before)]

-----------------------------------------------------------------------------
(* Responses *)

NoBody == [kind |-> "none"]

\* An HTTP response: HTTPException(status_code, detail), or a 200 with a body.
\* status 0: the handler is suspended and has sent nothing yet.
Reply(op, status, detail, body) ==
    [op |-> op, status |-> status, detail |-> detail, body |-> body]

\* main.py:43-48
ChatResponse(response, code, executed, result, svg_updated) ==
    [kind |-> "chat", response |-> response, code |-> code, executed |-> executed,
     result |-> result, svg_updated |-> svg_updated]

NoDocDetail == <<"No DXF file loaded">>

NoDocChatDetail == <<"No DXF file loaded. Please upload a file first.">>

\* What a response shows of the document it was made from
View(kind, name, d) == [kind |-> kind, name |-> name, n |-> d.n, layer |-> d.layer]

-----------------------------------------------------------------------------
(* chat, main.py:260-304 *)

\* What a library call can do: return, raise a RuntimeError, raise another Exception
LibOutcomes == {"ok", "RuntimeError", "Exception"}

Program(stmts) == JoinWith([i \in 1..Len(stmts) |-> <<stmts[i]>>], <<NL>>)

\* Replies of the hosted model: the prompted format around a program, and replies
\* that leave the format
ModelReplies ==
    {Formatted(<<"x">>, Program(p)) :
        p \in {<<>>, <<"add">>, <<"del">>, <<"set">>, <<"raise">>, <<"add", "add">>,
               <<"add", "del">>, <<"add", "raise">>, <<"del", "raise">>,
               <<"set", "raise">>}}
    \cup {<<"x">>,
          <<EXPLANATION, SP, "x">>,
          <<EXPLANATION, SP, NL, CODE>>,
          <<FENCE, PY, NL, "add", NL, FENCE>>,
          <<FENCE, NL, "del", NL, FENCE>>,
          <<EXPLANATION, SP, "x", NL, CODE, SP, "set">>,
          Formatted(<<"x">>, <<"add", SP, "x">>),
          Formatted(<<"x">>, <<"add", NL, CODE, NL, "raise">>)}

\* generate_ezdxf_code's outcomes, main.py:89-157: the call of the hosted model
\* raises, or its reply is split into (explanation, code)
GenOutcomes ==
    {[exc |-> x, explanation |-> <<>>, code |-> <<>>] : x \in {"RuntimeError", "Exception"}}
    \cup {[exc |-> "", explanation |-> ParseResponse(t).explanation,
           code |-> ParseResponse(t).code] : t \in ModelReplies}

\* main.py:295-302
RuntimeErrorResponse(msg, code) ==
    ChatResponse(<<"Error executing code: ">> \o msg, code, FALSE, msg, FALSE)

\* main.py:295-304 for an exception raised before `code` is bound
HandleEarly(where, exc) ==
    IF exc = "RuntimeError"
    THEN Reply("chat", 200, <<>>, RuntimeErrorResponse(<<where, exc>>, <<>>))
    ELSE Reply("chat", 500, <<"Chat processing failed: ", where, exc>>, NoBody)

\* A mutation: empty code is executed like any other
RunsEmptyCode(code) == TRUE

\* main.py:275, `if not code` is false
RunsCode(code) == code # <<>>

\* A mutation: a failed execution still reports executed
FailedExecutionResponseExecuted(explanation, code, msg) ==
    ChatResponse(explanation, code, TRUE, msg, FALSE)

\* main.py:295-302 for the RuntimeError of execute_ezdxf_code
FailedExecutionResponse(explanation, code, msg) ==
    RuntimeErrorResponse(msg, code)

\* main.py:268-304, the try block on document d:
\* [doc: the document afterwards, reply, effects]
ChatOutcome(d, lay, gen) ==
    IF lay # "ok"
    THEN [doc |-> d, reply |-> HandleEarly("layers", lay), effects |-> {}]
    ELSE IF gen.exc # ""
    THEN [doc |-> d, reply |-> HandleEarly("model", gen.exc), effects |-> {"model"}]
    ELSE IF ~RunsCode(gen.code)
    THEN [doc |-> d,
          reply |-> Reply("chat", 200, <<>>,
              ChatResponse(IF gen.explanation # <<>> THEN gen.explanation
                           ELSE <<"I couldn't generate code for that request. Please try rephrasing.">>,
                           <<>>, FALSE, <<>>, FALSE)),
          effects |-> {"model"}]
    ELSE LET x == execute_ezdxf_code(gen.code, d) IN
         [doc |-> x.doc,
          reply |-> Reply("chat", 200, <<>>,
              IF x.raised
              THEN FailedExecutionResponse(gen.explanation, gen.code, x.msg)
              ELSE ChatResponse(gen.explanation, gen.code, TRUE, x.msg, TRUE)),
          effects |-> {"model", "exec"} \cup (IF x.raised THEN {"raised"} ELSE {})]

\* The entity count stays within the model's bound while the code runs
WithinBound(d, code) ==
    d.n + Cardinality({i \in 1..Len(code) : code[i] = "add"}) <= MaxEntities

NoGenOutcome == [exc |-> "", explanation |-> <<>>, code |-> <<>>]

\* What chat meets on its way: the layer query's outcome and, if it returns,
\* generate_ezdxf_code's
ChatInputs ==
    {[op |-> "chat", lay |-> x, gen |-> NoGenOutcome] : x \in LibOutcomes \ {"ok"}}
    \cup {[op |-> "chat", lay |-> "ok", gen |-> g] : g \in GenOutcomes}

NothingMet == [op |-> "none"]

Chat ==
    /\ UNCHANGED <<current_doc, current_filename, uploads, units>>
    /\ IF current_doc = None
       THEN /\ last' = Reply("chat", 400, NoDocChatDetail, NoBody)
            /\ met' = NothingMet
            /\ effects' = {}
            /\ UNCHANGED docs
       ELSE \E in \in ChatInputs :
               /\ WithinBound(docs[current_doc], in.gen.code)
               /\ LET out == ChatOutcome(docs[current_doc], in.lay, in.gen) IN
                    /\ docs' = [docs EXCEPT ![current_doc] = out.doc]
                    /\ last' = out.reply
                    /\ met' = in
                    /\ effects' = out.effects

-----------------------------------------------------------------------------
(* upload_dxf, main.py:200-234 *)

Requests == 1..MaxUploads

FileNames == {<<"a", ".dxf">>, <<"b", ".DXF">>, <<"c", ".txt">>}

\* main.py:205
IsDxfName(name) == EndsWith(Lower(name), <<".dxf">>)

\* pc: "new" (not sent yet), "reading" (suspended in `await file.read()`), "done";
\* overlapped: another upload was suspended there at the same time
NewUpload == [pc |-> "new", filename |-> <<>>, overlapped |-> FALSE]

Reading(r) == uploads[r].pc = "reading"

\* main.py:205-209: the extension check, then the handler waits for the file's bytes.
\* A refused request leaves nothing behind but its response.
UploadBegin(r) ==
    /\ uploads[r].pc = "new"
    /\ \A q \in 1..(r - 1) : uploads[q].pc # "new"
    /\ \E name \in FileNames :
          IF IsDxfName(name)
          THEN /\ uploads' = [q \in Requests |->
                                IF q = r
                                THEN [pc |-> "reading", filename |-> name,
                                      overlapped |-> \E o \in Requests : Reading(o)]
                                ELSE IF Reading(q)
                                THEN [uploads[q] EXCEPT !.overlapped = TRUE]
                                ELSE uploads[q]]
               /\ last' = Reply("upload", 0, <<>>, NoBody)
          ELSE /\ uploads' = uploads
               /\ last' = Reply("upload", 400, <<"File must be a DXF file">>, NoBody)
    /\ met' = NothingMet
    /\ effects' = {}
    /\ UNCHANGED <<current_doc, current_filename, docs, units>>

\* main.py:217, ezdxf.readfile returns a Drawing that did not exist before; the
\* one it replaces is the only other one alive
FreshDoc(cur) == IF cur = 1 THEN 2 ELSE 1

\* A mutation: a file that cannot be read clears the handle
HandleAfterLoadCleared(old, parsed, new) == IF parsed THEN new ELSE None

\* main.py:217: the assignment happens only if ezdxf.readfile returns
HandleAfterLoad(old, parsed, new) == IF parsed THEN new ELSE old

\* A mutation: the file name is kept from the first upload
FilenameAfterLoadKept(old, parsed, new) == IF parsed /\ old = <<>> THEN new ELSE old

\* main.py:218
FilenameAfterLoad(old, parsed, new) == IF parsed THEN new ELSE old

\* main.py:209-234, from the resumption after `await file.read()` to the response;
\* nothing in it awaits, so it runs as one step.  parsed: ezdxf.readfile
\* returns; rendered: dxf_to_svg and get_layers_info return.
UploadLoad(r) ==
    /\ Reading(r)
    /\ \E parsed \in BOOLEAN, rendered \in BOOLEAN :
          LET name == uploads[r].filename
              new == FreshDoc(current_doc)
              d == NewDoc(FileEntities, name)
          IN  /\ current_doc' = HandleAfterLoad(current_doc, parsed, new)
              /\ current_filename' = FilenameAfterLoad(current_filename, parsed, name)
              /\ docs' = IF parsed THEN (new :> d) ELSE docs
              /\ uploads' = [uploads EXCEPT ![r].pc = "done", ![r].filename = <<>>]
              /\ last' = IF parsed /\ rendered
                         THEN Reply("upload", 200, <<>>, View("upload", name, d))
                         ELSE Reply("upload", 500, <<"Failed to process DXF: ">>, NoBody)
              /\ met' = [op |-> "upload", name |-> name, parsed |-> parsed,
                         rendered |-> parsed /\ rendered,
                         overlapped |-> uploads[r].overlapped]
    /\ effects' = {"write"}
    /\ UNCHANGED units

-----------------------------------------------------------------------------
(* get_svg, get_layers, export_dxf, export_pdf: main.py:237-257, 307-371 *)

\* A mutation: with no document, the layers request answers an empty list
NoDocReplyEmptyLayers(op) ==
    IF op = "layers" THEN Reply(op, 200, <<>>, View("layers", <<>>, NewDoc(0, <<>>)))
    ELSE Reply(op, 404, NoDocDetail, NoBody)

\* main.py:242-243, 254-255, 312-313, 332-333
NoDocReply(op) == Reply(op, 404, NoDocDetail, NoBody)

\* An exception no handler catches: the framework answers 500
Unhandled(op) == Reply(op, 500, <<"Internal Server Error">>, NoBody)

GetSvg ==
    /\ UNCHANGED <<current_doc, current_filename, docs, uploads, units>>
    /\ effects' = {}
    /\ met' = NothingMet
    /\ IF current_doc = None
       THEN last' = NoDocReply("svg")
       ELSE \E rendered \in BOOLEAN :
               last' = IF rendered
                       THEN Reply("svg", 200, <<>>, View("svg", <<>>, docs[current_doc]))
                       ELSE Unhandled("svg")

GetLayers ==
    /\ UNCHANGED <<current_doc, current_filename, docs, uploads, units>>
    /\ effects' = {}
    /\ met' = NothingMet
    /\ last' = IF current_doc = None
               THEN NoDocReply("layers")
               ELSE Reply("layers", 200, <<>>, View("layers", <<>>, docs[current_doc]))

\* main.py:316
ExportDxfName(name) == Replace(name, <<".dxf">>, <<"_edited", ".dxf">>)

\* main.py:363
ExportPdfName(name) == Replace(name, <<".dxf">>, <<".pdf">>)

ExportDxf ==
    /\ UNCHANGED <<current_doc, current_filename, docs, uploads, units>>
    /\ met' = NothingMet
    /\ IF current_doc = None
       THEN /\ last' = NoDocReply("export_dxf")
            /\ effects' = {}
       ELSE /\ effects' = {"write"}
            /\ last' = Reply("export_dxf", 200, <<>>,
                             View("file", ExportDxfName(current_filename),
                                  docs[current_doc]))

\* out: "norender" (drawing the layout raises), "nodrawing" (svg2rlg returns None)
ExportPdf ==
    /\ UNCHANGED <<current_doc, current_filename, docs, uploads, units>>
    /\ met' = NothingMet
    /\ IF current_doc = None
       THEN /\ last' = NoDocReply("export_pdf")
            /\ effects' = {}
       ELSE \E out \in {"ok", "norender", "nodrawing"} :
               CASE out = "norender" ->
                        /\ last' = Unhandled("export_pdf")
                        /\ effects' = {}
                 [] out = "nodrawing" ->
                        /\ last' = Reply("export_pdf", 500,
                                         <<"Failed to parse SVG for PDF export">>, NoBody)
                        /\ effects' = {"write"}
                 [] OTHER ->
                        /\ last' = Reply("export_pdf", 200, <<>>,
                                         View("file", ExportPdfName(current_filename),
                                              docs[current_doc]))
                        /\ effects' = {"write"}

-----------------------------------------------------------------------------
(* The server *)

NoGenIn == [kind |-> "none", e |-> <<>>, c |-> <<>>, text |-> <<>>]

NoGenOut == [done |-> FALSE, explanation |-> <<>>, code |-> <<>>]

NoExeIn == [code |-> <<>>, doc |-> NewDoc(0, <<>>)]

NoExeOut == [done |-> FALSE, doc |-> NewDoc(0, <<>>), raised |-> FALSE, msg |-> <<>>]

\* main.py:33-35
InitServer ==
    /\ current_doc = None
    /\ current_filename = <<>>
    /\ docs = NoDocs
    /\ uploads = [r \in Requests |-> NewUpload]
    /\ last = Reply("start", 0, <<>>, NoBody)
    /\ met = NothingMet
    /\ effects = {}

Init ==
    /\ InitServer
    /\ gen_in = NoGenIn
    /\ gen_out = NoGenOut
    /\ exe_in = NoExeIn
    /\ exe_out = NoExeOut

Next ==
    \/ \E r \in Requests : UploadBegin(r)
    \/ \E r \in Requests : UploadLoad(r)
    \/ GetSvg
    \/ GetLayers
    \/ Chat
    \/ ExportDxf
    \/ ExportPdf

Spec == Init /\ [][Next]_vars

-----------------------------------------------------------------------------
(* generate_ezdxf_code on its own: every short reply, parsed once *)

GenTokens == {EXPLANATION, CODE, FENCE, PY, SP, "x"}

\* Replies in the prompted format, for every explanation e and code c of at
\* most maxE and maxC tokens, and replies of any make-up of at most maxF tokens
GenInputs(maxE, maxC, maxF) ==
    {[kind |-> "formatted", e |-> e, c |-> c, text |-> Formatted(e, c)] :
        e \in SeqsUpTo(GenTokens, maxE), c \in SeqsUpTo(GenTokens, maxC)}
    \cup {[kind |-> "free", e |-> <<>>, c |-> <<>>, text |-> t] :
        t \in SeqsUpTo(GenTokens, maxF)}

InitGenerate ==
    /\ InitServer
    /\ gen_in \in GenInputs(MaxExplLen, MaxCodeLen, MaxFreeLen)
    /\ gen_out = NoGenOut
    /\ exe_in = NoExeIn
    /\ exe_out = NoExeOut

\* main.py:132-157
Generate ==
    /\ ~gen_out.done
    /\ LET p == ParseResponse(gen_in.text) IN
       gen_out' = [done |-> TRUE, explanation |-> p.explanation, code |-> p.code]
    /\ UNCHANGED <<server, gen_in, exe_in, exe_out>>

SpecGenerate == InitGenerate /\ [][Generate]_vars

-----------------------------------------------------------------------------
(* execute_ezdxf_code on its own: every short program on every small document *)

\* Programs of at most maxS statements, on documents of at most maxN entities
ExeInputs(maxS, maxN) ==
    {[code |-> Program(p), doc |-> [n |-> n, layer |-> l, name |-> <<"a", ".dxf">>]] :
        p \in SeqsUpTo(Stmts \cup {"x"}, maxS), n \in 0..maxN, l \in 0..1}

InitExecute ==
    /\ InitServer
    /\ gen_in = NoGenIn
    /\ gen_out = NoGenOut
    /\ exe_in \in ExeInputs(MaxStmts, MaxEntities)
    /\ exe_out = NoExeOut

\* main.py:160-188
Execute ==
    /\ ~exe_out.done
    /\ LET x == execute_ezdxf_code(exe_in.code, exe_in.doc) IN
       exe_out' = [done |-> TRUE, doc |-> x.doc, raised |-> x.raised, msg |-> x.msg]
    /\ UNCHANGED <<server, gen_in, gen_out, exe_in>>

SpecExecute == InitExecute /\ [][Execute]_vars

-----------------------------------------------------------------------------
(* C6: the reply in the prompted format is split back into its parts *)

\* The content of the first fenced block of a text: from the first fence (and
\* its "python" tag, if it has one) to the next fence, without the white space
\* around it; empty when the text has no fence
C6_FirstFencedBlock(text) ==
    LET i == Find(text, <<FENCE>>) IN
    IF i = 0 THEN <<>>
    ELSE LET rest == SubSeq(text, i + 1, Len(text))
             body == IF rest # <<>> /\ Head(rest) = PY THEN Tail(rest) ELSE rest
             j == Find(body, <<FENCE>>)
         IN  Strip(IF j = 0 THEN body ELSE SubSeq(body, 1, j - 1))

\* C6, first sentence: for every explanation e and every code c without a code
\* fence, the reply "EXPLANATION: e / CODE: / fenced c" is returned as
\* (e stripped, c stripped).
C6_Formatted ==
    (gen_out.done /\ gen_in.kind = "formatted" /\ ~Contains(gen_in.c, <<FENCE>>))
        => /\ gen_out.explanation = Strip(gen_in.e)
           /\ gen_out.code = Strip(gen_in.c)

\* C6, second sentence: a reply without "EXPLANATION:" gets the default
\* explanation, and its code is the content of its first fenced block, or empty.
C6_Unmarked ==
    (gen_out.done /\ ~Contains(gen_in.text, <<EXPLANATION>>))
        => /\ gen_out.explanation = DefaultExplanation
           /\ gen_out.code = C6_FirstFencedBlock(gen_in.text)

\* C6: generate_ezdxf_code returns exactly (e stripped, c stripped) for a reply in
\* the prompted format, for every e and every fence-free c; without the
\* "EXPLANATION:" marker it returns the default explanation and the first fenced
\* block.
C6_RoundTrip == C6_Formatted /\ C6_Unmarked

-----------------------------------------------------------------------------
(* C7: the message of a run that did not raise *)

\* C7: when the executed code completes without an exception, the message is
\* decided by the net change d of the modelspace entity count alone: "|d|
\* element(s) removed" for d < 0, "d element(s) added" for d > 0, "Changes
\* applied successfully" for d = 0, whatever was added, removed or changed on
\* the way.
C7_NetChange ==
    (exe_out.done /\ ~exe_out.raised) =>
        LET d == exe_out.doc.n - exe_in.doc.n IN
        /\ d < 0 => exe_out.msg = <<Str(-d), " element(s) removed">>
        /\ d > 0 => exe_out.msg = <<Str(d), " element(s) added">>
        /\ d = 0 => exe_out.msg = <<"Changes applied successfully">>

\* The code added one entity and removed one, and the message tells of no count
C7_Witness ==
    /\ exe_out.done /\ ~exe_out.raised
    /\ exe_in.code = <<"add", NL, "del">>
    /\ exe_out.doc.n = exe_in.doc.n
    /\ exe_out.msg = <<"Changes applied successfully">>

-----------------------------------------------------------------------------
(* C1: the lifecycle of the handle *)

C1_Readers == {"svg", "layers", "export_dxf", "export_pdf"}

C1_Handle ==
    /\ last.op = "start" => (current_doc = None /\ current_filename = <<>>)
    /\ Cardinality(DOMAIN docs) <= 1
    /\ current_doc = None => docs = NoDocs
    /\ current_doc # None => DOMAIN docs = {current_doc}

C1_Step ==
    /\ (current_doc' # current_doc \/ current_filename' # current_filename)
          => (last'.op = "upload" /\ met'.op = "upload" /\ met'.parsed)
    /\ current_doc # None => current_doc' # None
    /\ last'.op \in C1_Readers => docs' = docs
    /\ last'.op = "chat" => DOMAIN docs' = DOMAIN docs

\* C1: the handle is empty (None, "") at start; only upload_dxf assigns it or the
\* file name; at most one document is loaded at any time; chat, get_svg,
\* get_layers, export_dxf and export_pdf never replace or clear the handle (chat
\* changes only the contents of the document it points to); once a document is
\* loaded the handle never goes back to empty.
C1_Lifecycle == [](C1_Handle) /\ [][C1_Step]_vars

\* A chat has changed the loaded document's contents, and the handle is in place
C1_Witness ==
    /\ current_doc # None
    /\ last.op = "chat" /\ last.status = 200 /\ last.body.executed
    /\ docs[current_doc].n # FileEntities

-----------------------------------------------------------------------------
(* C2: overlapping uploads *)

C2_LoadStepOf(r) == Reading(r) /\ uploads'[r].pc = "done"

\* The handle and the file name belong to the same upload
C2_Consistent ==
    /\ current_doc = None => current_filename = <<>>
    /\ current_doc # None => docs[current_doc].name = current_filename

C2_Replaces(r) ==
    /\ current_doc' # None /\ current_doc' # current_doc
    /\ DOMAIN docs' = {current_doc'}
    /\ docs'[current_doc'].name = uploads[r].filename
    /\ current_filename' = uploads[r].filename

C2_OriginalStep ==
    \A r \in Requests :
        (C2_LoadStepOf(r) /\ uploads[r].overlapped) =>
            (last'.op = "upload" /\ last'.status = 200 /\ C2_Replaces(r))

\* C2 as stated: each of two overlapping uploads returns a success response and
\* its load step leaves the handle and the file name its own, so that they end
\* up those of the upload whose load step ran last; the handle and the file
\* name never belong to two different uploads.
C2_Original == [](C2_Consistent) /\ [][C2_OriginalStep]_vars

C2_Step ==
    \A r \in Requests :
        (C2_LoadStepOf(r) /\ uploads[r].overlapped) =>
            /\ last'.op = "upload" /\ met'.op = "upload"
            /\ last'.status = IF met'.parsed /\ met'.rendered THEN 200 ELSE 500
            /\ IF met'.parsed THEN C2_Replaces(r)
               ELSE UNCHANGED <<current_doc, current_filename, docs>>

\* C2, amended: each of two overlapping uploads returns a success response if its
\* own file loads and renders, and HTTP 500 otherwise, whatever the other one
\* does; a load step whose file loads leaves the handle and the file name its
\* own and drops the document loaded before, one whose file does not load
\* leaves them as they were, so that they end up those of the upload whose load
\* step succeeded last; the handle and the file name never belong to two
\* different uploads.
C2_Overlap == [](C2_Consistent) /\ [][C2_Step]_vars

\* Two uploads overlapped, both are done, and the one that loaded last has
\* returned success and owns the handle and the file name
C2_Witness ==
    /\ \E r, q \in Requests :
          /\ r # q
          /\ uploads[r].pc = "done" /\ uploads[r].overlapped
          /\ uploads[q].pc = "done" /\ uploads[q].overlapped
    /\ last.op = "upload" /\ last.status = 200
    /\ met.op = "upload" /\ met.overlapped
    /\ current_filename = met.name
    /\ docs[current_doc].name = met.name

-----------------------------------------------------------------------------
(* C3: what chat answers when something raises *)

C3_EarlyError(kind) ==
    \/ met.lay = kind
    \/ met.lay = "ok" /\ met.gen.exc = kind

\* The generated code raised while it ran: a normal ChatResponse tells of it
C3_FailedExecution ==
    "raised" \in effects =>
        /\ last.status = 200
        /\ last.body.kind = "chat"
        /\ ~last.body.executed
        /\ ~last.body.svg_updated
        /\ last.body.code = met.gen.code
        /\ Head(last.body.result) = "Code execution failed:"

\* C3 as stated: an exception of the generated code gives a normal ChatResponse
\* with executed=False, svg_updated=False, the generated code and a result that
\* starts with "Code execution failed:"; any other exception raised during chat
\* (layer query or model call) gives HTTP 500.
C3_Original ==
    (last.op = "chat" /\ met.op = "chat") =>
        /\ C3_FailedExecution
        /\ (C3_EarlyError("RuntimeError") \/ C3_EarlyError("Exception"))
              => last.status = 500

\* C3, amended: an exception of the generated code gives a normal ChatResponse
\* with executed=False, svg_updated=False, the generated code and a result that
\* starts with "Code execution failed:"; any other exception raised during chat
\* (layer query or model call) gives HTTP 500, unless it is a RuntimeError: that
\* one gives a normal ChatResponse too, with executed=False, svg_updated=False,
\* code "" and the error's own text as the result.
C3_Errors ==
    (last.op = "chat" /\ met.op = "chat") =>
        /\ C3_FailedExecution
        /\ C3_EarlyError("Exception") => last.status = 500
        /\ C3_EarlyError("RuntimeError") =>
              /\ last.status = 200
              /\ last.body.kind = "chat"
              /\ ~last.body.executed
              /\ ~last.body.svg_updated
              /\ last.body.code = <<>>
              /\ last.body.result # <<>>
              /\ Head(last.body.result) # "Code execution failed:"

\* A chat whose generated code raised has been answered
C3_Witness ==
    /\ last.op = "chat" /\ met.op = "chat"
    /\ "raised" \in effects
    /\ last.status = 200
    /\ last.body.code = <<"add", NL, "raise">>
    /\ Head(last.body.result) = "Code execution failed:"

-----------------------------------------------------------------------------
(* C4: no undo *)

\* The document the statements of `code` leave that ran before the first one
\* that raised; code that does not compile runs no statement.
C4_Ran(code, d) ==
    LET at[k \in 0..Len(code)] ==
            IF k = 0 THEN [doc |-> d, stopped |-> FALSE]
            ELSE LET before == at[k - 1]
                     s == code[k]
                     b == before.doc
                 IN  IF before.stopped THEN before
                     ELSE IF s = "raise" \/ (s = "del" /\ b.n = 0)
                     THEN [doc |-> b, stopped |-> TRUE]
                     ELSE IF s = "add" THEN [doc |-> [b EXCEPT !.n = b.n + 1], stopped |-> FALSE]
                     ELSE IF s = "del" THEN [doc |-> [b EXCEPT !.n = b.n - 1], stopped |-> FALSE]
                     ELSE IF s = "set" /\ b.n > 0
                     THEN [doc |-> [b EXCEPT !.layer = 1 - b.layer], stopped |-> FALSE]
                     ELSE before
    IN  IF \E i \in 1..Len(code) : code[i] \notin Stmts \cup Whitespace THEN d
        ELSE at[Len(code)].doc

C4_FailedChatKeepsChanges ==
    (last'.op = "chat" /\ "raised" \in effects') =>
        /\ current_doc' = current_doc
        /\ docs'[current_doc] = C4_Ran(last'.body.code, docs[current_doc])
        /\ ~last'.body.executed
        /\ ~last'.body.svg_updated

C4_ReadsSeeDocument ==
    (last.op \in {"svg", "layers", "export_dxf", "export_pdf"} /\ last.status = 200) =>
        /\ last.body.n = docs[current_doc].n
        /\ last.body.layer = docs[current_doc].layer

\* C4: the changes generated code makes before it raises stay in the loaded
\* document, while the response of that chat says executed=False and
\* svg_updated=False; every later get_svg, get_layers and export answers from
\* the document as it then is.
C4_NoUndo == [](C4_ReadsSeeDocument) /\ [][C4_FailedChatKeepsChanges]_vars

\* Code that added an entity and then raised was answered with executed=False,
\* and the document holds more than the uploaded file did
C4_Witness ==
    /\ last.op = "chat" /\ "raised" \in effects
    /\ last.body.code = <<"add", NL, "raise">>
    /\ ~last.body.executed
    /\ docs[current_doc].n = FileEntities + 1

-----------------------------------------------------------------------------
(* C5: no document, no operation *)

C5_Operations == {"svg", "layers", "export_dxf", "export_pdf", "chat"}

C5_Rejected ==
    \/ last.status = 404 /\ last.detail = NoDocDetail
    \/ last.status = 400 /\ last.detail = NoDocChatDetail

\* C5: with no document loaded, get_svg, get_layers, export_dxf and export_pdf
\* answer HTTP 404 "No DXF file loaded" and chat answers HTTP 400, and none of
\* them calls the model, executes code, writes a file or changes the handle or
\* the file name; with a document loaded none of the five is refused for the
\* lack of one.
C5_NoDocument ==
    last.op \in C5_Operations =>
        IF current_doc = None
        THEN /\ last.op = "chat" => (last.status = 400 /\ last.detail = NoDocChatDetail)
             /\ last.op # "chat" => (last.status = 404 /\ last.detail = NoDocDetail)
             /\ effects = {}
             /\ current_filename = <<>>
             /\ docs = NoDocs
        ELSE ~C5_Rejected

\* An export was refused for the lack of a document
C5_Witness ==
    /\ current_doc = None
    /\ last.op = "export_pdf"
    /\ last.status = 404

-----------------------------------------------------------------------------
(* C8: executed and svg_updated *)

C8_Generated == met.op = "chat" /\ met.lay = "ok" /\ met.gen.exc = ""

C8_Answer ==
    (last.op = "chat" /\ last.status = 200) =>
        /\ last.body.svg_updated = last.body.executed
        /\ last.body.executed =>
              /\ C8_Generated
              /\ met.gen.code # <<>>
              /\ "exec" \in effects
              /\ "raised" \notin effects
        /\ (C8_Generated /\ met.gen.code = <<>>) =>
              /\ "exec" \notin effects
              /\ last.body.code = <<>>
              /\ ~last.body.executed
              /\ last.body.result = <<>>
              /\ ~last.body.svg_updated

C8_EmptyCodeStep ==
    (last'.op = "chat" /\ last'.status = 200 /\ met'.lay = "ok" /\ met'.gen.exc = ""
        /\ met'.gen.code = <<>>) => docs' = docs

\* C8: every ChatResponse has svg_updated = executed; executed=True only if the
\* extracted code was not empty and ran without an exception; empty code is
\* never executed, leaves the document as it is, and is answered with code "",
\* executed=False, result "" and svg_updated=False.
C8_Response == [](C8_Answer) /\ [][C8_EmptyCodeStep]_vars

\* A chat whose reply held no code has been answered
C8_Witness ==
    /\ last.op = "chat" /\ last.status = 200
    /\ C8_Generated
    /\ met.gen.code = <<>>
    /\ ~last.body.executed

====
